---- MODULE Spec2Model ----
(***************************************************************************)
(* Course indexing and per-user progress tracking of code-teach-backend    *)
(* (utils/courseIndexing.js and the routes that edit a course hierarchy).  *)
(*                                                                         *)
(* The database is two collections: courses (each with an ordered list of  *)
(* modules, each with an ordered list of subModules) and users (each with  *)
(* a list of enrollments, each with a list of moduleProgress entries).     *)
(* A Date is a natural number; null/undefined dates are Null.  An          *)
(* undefined `archived` flag is FALSE (the code only tests it for truth).  *)
(* Titles and the other content fields of the hierarchy are left out: no   *)
(* function of courseIndexing.js branches on them.                         *)
(*                                                                         *)
(* Spec      the calls run one after the other, each from its first line   *)
(*           to its return, on a course its author keeps editing.  The     *)
(*           clock stands still: no branch of the code reads a date.       *)
(* SpecClock the same calls on a one-module course with time passing       *)
(*           between them, for the properties of the stored dates.         *)
(* SpecRace  a completion and a reconciliation batch as two requests that  *)
(*           interleave at their database calls.                           *)
(* SpecEnrollRace  enroll requests that interleave at their database calls.*)
(* SpecIndex the hierarchy alone, with ids and orders written by the       *)
(*           author and indexing written back between the edits.           *)
(* SpecDeleteRace  the deletion of a course as its two database commands.  *)
(* SpecFrame two courses and two learners.                                 *)
(* SpecCleanup     the maintenance pass over enrollments of deleted        *)
(*           courses.                                                      *)
(***************************************************************************)
EXTENDS Integers, Sequences, FiniteSets, TLC

VARIABLES
    courses,    \* courseId -> [exists, modules]            (courses collection)
    users,      \* userId -> [exists, enrollments]          (users collection)
    now,        \* the clock read by `new Date()`
    ret,        \* what the last call returned or threw
    edits,      \* number of authoring edits made so far
    repairJob,  \* in-flight reconciliation batch: documents loaded by User.find
    markJob,    \* in-flight updateSubModuleProgress: document loaded by findById
    enrollJob,  \* request -> in-flight initializeEnrollmentProgress
    deleteJob   \* in-flight DELETE /courses/:id: the course it has purged

vars == <<courses, users, now, ret, edits, repairJob, markJob, enrollJob,
         deleteJob>>

----------------------------------------------------------------------------
(* Bounds of the model *)

MaxModules == 2         \* modules in a course
MaxSubModules == 2      \* subModules in a module
MaxClock == 2           \* last value of the clock
MaxEdits == 2           \* authoring edits in one behaviour
MaxEntries == 6         \* entries of the enrollments that are only read

(* Identifiers *)

Null == 0
NoId == ""
CourseIds == {"c1"}
UserIds == {"u1", "u2"}
PinnedSubModuleIds == {"p1"}    \* ids an author writes into a subModule
BogusModuleId == "mX"           \* a module id that no course carries
BogusSubModuleId == "sX"        \* a subModule id that no course carries
Requests == {"r1", "r2"}        \* enroll requests that may be in flight together

----------------------------------------------------------------------------
(* Sequence helpers (Array.prototype.map / filter / find) *)

MapSeq(s, F(_)) == [i \in 1..Len(s) |-> F(s[i])]

Range(s) == {s[i] : i \in 1..Len(s)}

RECURSIVE Flatten(_)
Flatten(ss) == IF ss = <<>> THEN <<>> ELSE Head(ss) \o Flatten(Tail(ss))

RemoveAt(s, i) == SubSeq(s, 1, i - 1) \o SubSeq(s, i + 1, Len(s))

CountIf(s, P(_)) == Cardinality({i \in 1..Len(s) : P(s[i])})

\* index of the first element satisfying P, 0 when there is none
FindIndex(s, P(_)) ==
    IF \E i \in 1..Len(s) : P(s[i])
    THEN CHOOSE i \in 1..Len(s) : P(s[i]) /\ \A j \in 1..(i - 1) : ~P(s[j])
    ELSE 0

----------------------------------------------------------------------------
(* Identity assignment *)

generateModuleId(courseId, moduleOrder) ==
    courseId \o "_module_" \o ToString(moduleOrder)

generateSubModuleId(courseId, moduleOrder, subModuleOrder) ==
    courseId \o "_module_" \o ToString(moduleOrder)
             \o "_sub_" \o ToString(subModuleOrder)

(* Indexing.  indexCourseModules writes ids and orders into the course     *)
(* object it is given and returns the flat list; IndexedModules is the     *)
(* object after the call, indexCourseModules the returned value.           *)

\* the order counted up from the stored one instead of assigned
IndexedSubModule_OrderCounted(courseId, moduleIndex, subModule, subModuleIndex) ==
    [id    |-> IF subModule.id # NoId THEN subModule.id
               ELSE generateSubModuleId(courseId, moduleIndex, subModuleIndex),
     order |-> subModule.order + 1]

\* the id generated from the position whether or not the subModule has one
IndexedSubModule_Regenerated(courseId, moduleIndex, subModule, subModuleIndex) ==
    [id    |-> generateSubModuleId(courseId, moduleIndex, subModuleIndex),
     order |-> subModuleIndex]

IndexedSubModule(courseId, moduleIndex, subModule, subModuleIndex) ==
    [id    |-> IF subModule.id # NoId THEN subModule.id
               ELSE generateSubModuleId(courseId, moduleIndex, subModuleIndex),
     order |-> subModuleIndex]

IndexedModule(courseId, module, moduleIndex) ==
    [id    |-> IF module.id # NoId THEN module.id
               ELSE generateModuleId(courseId, moduleIndex),
     order |-> moduleIndex,
     subModules |-> [j \in 1..Len(module.subModules) |->
                        IndexedSubModule(courseId, moduleIndex,
                                         module.subModules[j], j)]]

IndexedModules(courseId, modules) ==
    [i \in 1..Len(modules) |-> IndexedModule(courseId, modules[i], i)]

indexCourseModules(courseId, modules) ==
    LET im == IndexedModules(courseId, modules)
        items == Flatten([i \in 1..Len(im) |->
                    [j \in 1..Len(im[i].subModules) |->
                        [moduleId       |-> im[i].id,
                         moduleOrder    |-> im[i].order,
                         subModuleId    |-> im[i].subModules[j].id,
                         subModuleOrder |-> im[i].subModules[j].order]]])
    IN  [totalModules    |-> Len(modules),
         totalSubModules |-> Len(items),
         indexed         |-> items]

----------------------------------------------------------------------------
(* Progress arithmetic *)

\* Math.round((completed / total) * 100) for total > 0: round half up.
\* The percentage is a half only for totals that are multiples of 8, where
\* the quotient and its product by 100 are exact in floating point.
RoundPercent(completed, total) == (200 * completed + total) \div (2 * total)

\* the zero test replaced by a floor of 1 on the divisor
CalcProgress_NoZeroTest(completedCount, total) ==
    RoundPercent(completedCount, IF total > 0 THEN total ELSE 1)

CalcProgress(completedCount, total) ==
    IF total > 0 THEN RoundPercent(completedCount, total) ELSE 0

\* the filter without its `!p.archived`
IsCompletedActive_CountArchived(p) == p.completed

IsCompletedActive(p) == p.completed /\ ~p.archived

----------------------------------------------------------------------------
(* Reconciliation of one enrollment against the new indexing              *)

NewProgressEntry(item) ==
    [moduleId |-> item.moduleId, subModuleId |-> item.subModuleId,
     completed |-> FALSE, completedAt |-> Null, lastVisited |-> Null,
     archived |-> FALSE, archivedAt |-> Null]

\* Step 1 archiving every removed entry, completed or not
PreserveProgress_ArchiveAll(moduleProgress, newIds, t) ==
    MapSeq(moduleProgress,
           LAMBDA p : IF p.subModuleId \in newIds THEN p
                      ELSE [p EXCEPT !.archived = TRUE, !.archivedAt = t])

\* Step 1 dropping every removed entry, completed or not
PreserveProgress_DropRemoved(moduleProgress, newIds, t) ==
    SelectSeq(moduleProgress, LAMBDA p : p.subModuleId \in newIds)

\* Step 1: keep entries whose subModuleId is in the new indexing, archive
\* completed entries whose subModuleId is not, drop the rest.
PreserveProgress(moduleProgress, newIds, t) ==
    MapSeq(SelectSeq(moduleProgress,
                     LAMBDA p : p.subModuleId \in newIds \/ p.completed),
           LAMBDA p : IF p.subModuleId \in newIds THEN p
                      ELSE [p EXCEPT !.archived = TRUE, !.archivedAt = t])

\* Step 2: one fresh entry per indexed item whose subModuleId was not preserved.
AddNewTracking(moduleProgress, newIndexing) ==
    LET newIds == {item.subModuleId : item \in Range(newIndexing.indexed)}
        preservedProgress ==
            {p.subModuleId : p \in {q \in Range(moduleProgress) :
                                        q.subModuleId \in newIds}}
    IN  MapSeq(SelectSeq(newIndexing.indexed,
                         LAMBDA item : item.subModuleId \notin preservedProgress),
               NewProgressEntry)

\* the pass without its assignment of totalModules
ReconcileEnrollment_KeepTotal(enrollment, newIndexing, t) ==
    LET newIds == {item.subModuleId : item \in Range(newIndexing.indexed)}
        updatedProgress ==
            PreserveProgress(enrollment.moduleProgress, newIds, t)
            \o AddNewTracking(enrollment.moduleProgress, newIndexing)
        completedCount == CountIf(updatedProgress, IsCompletedActive)
    IN  [enrollment EXCEPT
            !.moduleProgress   = updatedProgress,
            !.completedModules = completedCount,
            !.progress         = CalcProgress(completedCount,
                                              newIndexing.totalSubModules)]

ReconcileEnrollment(enrollment, newIndexing, t) ==
    LET newIds == {item.subModuleId : item \in Range(newIndexing.indexed)}
        updatedProgress ==
            PreserveProgress(enrollment.moduleProgress, newIds, t)
            \o AddNewTracking(enrollment.moduleProgress, newIndexing)
        completedCount == CountIf(updatedProgress, IsCompletedActive)
    IN  [enrollment EXCEPT
            !.moduleProgress   = updatedProgress,
            !.totalModules     = newIndexing.totalSubModules,
            !.completedModules = completedCount,
            !.progress         = CalcProgress(completedCount,
                                              newIndexing.totalSubModules)]

----------------------------------------------------------------------------
(* Completion of one subModule in one enrollment                           *)

\* the entry a completion call creates when it finds none
CreatedProgressEntry(moduleId, subModuleId, t) ==
    [moduleId |-> moduleId, subModuleId |-> subModuleId,
     completed |-> FALSE, completedAt |-> Null, lastVisited |-> t,
     archived |-> FALSE, archivedAt |-> Null]

\* completion without the `if (!progressEntry.completed)` test
CompleteEntry_Always(p, t) ==
    [p EXCEPT !.completed = TRUE, !.completedAt = t]

\* mark as completed if not already
CompleteEntry(p, t) ==
    IF ~p.completed THEN [p EXCEPT !.completed = TRUE, !.completedAt = t]
    ELSE p

\* the call leaving the entries alone when it finds none for the key
MarkCompleted_NoCreate(enrollment, moduleId, subModuleId, t) ==
    LET Matches(p) == p.moduleId = moduleId /\ p.subModuleId = subModuleId
        found == FindIndex(enrollment.moduleProgress, Matches)
        wasCompleted == found = 0 \/ enrollment.moduleProgress[found].completed
        progress1 == IF found = 0 THEN enrollment.moduleProgress
                     ELSE [enrollment.moduleProgress EXCEPT
                              ![found] = [CompleteEntry(@, t) EXCEPT
                                             !.lastVisited = t]]
        completedModules ==
            IF wasCompleted THEN enrollment.completedModules
            ELSE CountIf(progress1, IsCompletedActive)
        progress ==
            IF wasCompleted THEN enrollment.progress
            ELSE CalcProgress(completedModules, enrollment.totalModules)
    IN  [enrollment EXCEPT
            !.moduleProgress   = progress1,
            !.completedModules = completedModules,
            !.progress         = progress,
            !.lastAccessed     = t]

MarkCompleted(enrollment, moduleId, subModuleId, t) ==
    LET Matches(p) == p.moduleId = moduleId /\ p.subModuleId = subModuleId
        found == FindIndex(enrollment.moduleProgress, Matches)
        \* find or create the progress entry
        progress0 ==
            IF found # 0 THEN enrollment.moduleProgress
            ELSE Append(enrollment.moduleProgress,
                        CreatedProgressEntry(moduleId, subModuleId, t))
        k == IF found # 0 THEN found ELSE Len(progress0)
        wasCompleted == progress0[k].completed
        progress1 == [progress0 EXCEPT ![k] = CompleteEntry(@, t)]
        \* the enrollment statistics are recomputed only on a first completion
        completedModules ==
            IF wasCompleted THEN enrollment.completedModules
            ELSE CountIf(progress1, IsCompletedActive)
        progress ==
            IF wasCompleted THEN enrollment.progress
            ELSE CalcProgress(completedModules, enrollment.totalModules)
    IN  [enrollment EXCEPT
            !.moduleProgress   = [progress1 EXCEPT ![k].lastVisited = t],
            !.completedModules = completedModules,
            !.progress         = progress,
            !.lastAccessed     = t]

----------------------------------------------------------------------------
(* The stored documents *)

\* position of the user's first enrollment for the course, 0 when none
EnrollmentIndex(enrollments, courseId) ==
    FindIndex(enrollments, LAMBDA e : e.course = courseId)

\* User.find({'enrollments.course': courseId})
EnrolledUsers(courseId) ==
    {u \in DOMAIN users :
        users[u].exists /\ EnrollmentIndex(users[u].enrollments, courseId) # 0}

Idle == [pc |-> "idle"]

\* a course as its author first saved it: no node carries an id or an order
AuthoredModules(shape) ==
    [i \in 1..Len(shape) |->
        [id |-> NoId, order |-> 0,
         subModules |-> [j \in 1..shape[i] |-> [id |-> NoId, order |-> 0]]]]

\* subModules per module of the courses a behaviour starts from
InitialShapes == {<<>>, <<2>>}

Init ==
    /\ \E shape \in InitialShapes :
          courses = [c \in CourseIds |->
                        [exists |-> TRUE, modules |-> AuthoredModules(shape)]]
    /\ edits = 0
    /\ users = [u \in UserIds |-> [exists |-> TRUE, enrollments |-> <<>>]]
    /\ now = 1
    /\ ret = [op |-> "none"]
    /\ repairJob = Idle
    /\ markJob = Idle
    /\ enrollJob = [r \in Requests |-> Idle]
    /\ deleteJob = Idle

\* time passes between two calls
Tick ==
    /\ now < MaxClock
    /\ now' = now + 1
    /\ UNCHANGED <<courses, users, ret, edits, repairJob, markJob, enrollJob, deleteJob>>

----------------------------------------------------------------------------
(* Authoring edits of a course hierarchy.  None of them touches a user.    *)

NewSubModule(id) == [id |-> id, order |-> 0]
NewModule(id) == [id |-> id, order |-> 0, subModules |-> <<>>]

AddModule(c) ==
    /\ courses[c].exists /\ edits < MaxEdits
    /\ Len(courses[c].modules) < MaxModules
    /\ courses' = [courses EXCEPT
                      ![c].modules = Append(@, NewModule(NoId))]
    /\ ret' = [op |-> "edit"]
    /\ edits' = edits + 1
    /\ UNCHANGED <<users, now, repairJob, markJob, enrollJob, deleteJob>>

DeleteModule(c, moduleIndex) ==
    /\ courses[c].exists /\ edits < MaxEdits
    /\ moduleIndex \in 1..Len(courses[c].modules)
    /\ courses' = [courses EXCEPT ![c].modules = RemoveAt(@, moduleIndex)]
    /\ ret' = [op |-> "edit"]
    /\ edits' = edits + 1
    /\ UNCHANGED <<users, now, repairJob, markJob, enrollJob, deleteJob>>

AddSubModule(c, moduleIndex, id) ==
    /\ courses[c].exists /\ edits < MaxEdits
    /\ moduleIndex \in 1..Len(courses[c].modules)
    /\ Len(courses[c].modules[moduleIndex].subModules) < MaxSubModules
    /\ courses' = [courses EXCEPT
                      ![c].modules[moduleIndex].subModules =
                          Append(@, NewSubModule(id))]
    /\ ret' = [op |-> "edit"]
    /\ edits' = edits + 1
    /\ UNCHANGED <<users, now, repairJob, markJob, enrollJob, deleteJob>>

RemoveSubModule(c, moduleIndex, subModuleIndex) ==
    /\ courses[c].exists /\ edits < MaxEdits
    /\ moduleIndex \in 1..Len(courses[c].modules)
    /\ subModuleIndex \in 1..Len(courses[c].modules[moduleIndex].subModules)
    /\ courses' = [courses EXCEPT
                      ![c].modules[moduleIndex].subModules =
                          RemoveAt(@, subModuleIndex)]
    /\ ret' = [op |-> "edit"]
    /\ edits' = edits + 1
    /\ UNCHANGED <<users, now, repairJob, markJob, enrollJob, deleteJob>>

----------------------------------------------------------------------------
(* The operations, each run from its first line to its return             *)

\* the total taken from the count of modules
NewEnrollment_CountModules(courseId, indexing, t) ==
    [course |-> courseId, enrolledAt |-> t, lastAccessed |-> t,
     progress |-> 0, totalModules |-> indexing.totalModules,
     completedModules |-> 0,
     moduleProgress |-> MapSeq(indexing.indexed, NewProgressEntry)]

NewEnrollment(courseId, indexing, t) ==
    [course |-> courseId, enrolledAt |-> t, lastAccessed |-> t,
     progress |-> 0, totalModules |-> indexing.totalSubModules,
     completedModules |-> 0,
     moduleProgress |-> MapSeq(indexing.indexed, NewProgressEntry)]

\* the error caught and dropped
Thrown_Swallowed(op, u, c, message) ==
    [op |-> op, user |-> u, course |-> c, error |-> ""]

Thrown(op, u, c, message) ==
    [op |-> op, user |-> u, course |-> c, error |-> message]

\* the call without its `if (existingEnrollment)` return
Enroll_NoExistingTest(u, c) ==
    /\ IF ~courses[c].exists
         THEN /\ ret' = Thrown("enroll", u, c, "Course not found")
              /\ UNCHANGED users
       ELSE IF ~users[u].exists
         THEN /\ ret' = Thrown("enroll", u, c, "User not found")
              /\ UNCHANGED users
       ELSE LET indexing == indexCourseModules(c, courses[c].modules)
            IN  /\ users' = [users EXCEPT ![u].enrollments =
                                Append(@, NewEnrollment(c, indexing, now))]
                /\ ret' = [op |-> "enroll", user |-> u, course |-> c,
                           error |-> "", alreadyEnrolled |-> FALSE]
    /\ UNCHANGED <<courses, now, edits, repairJob, markJob, enrollJob, deleteJob>>

\* initializeEnrollmentProgress(userId, courseId)
Enroll(u, c) ==
    /\ IF ~courses[c].exists
         THEN /\ ret' = Thrown("enroll", u, c, "Course not found")
              /\ UNCHANGED users
       ELSE IF ~users[u].exists
         THEN /\ ret' = Thrown("enroll", u, c, "User not found")
              /\ UNCHANGED users
       ELSE IF EnrollmentIndex(users[u].enrollments, c) # 0
         THEN /\ ret' = [op |-> "enroll", user |-> u, course |-> c,
                         error |-> "", alreadyEnrolled |-> TRUE]
              /\ UNCHANGED users
       ELSE LET indexing == indexCourseModules(c, courses[c].modules)
            IN  /\ users' = [users EXCEPT ![u].enrollments =
                                Append(@, NewEnrollment(c, indexing, now))]
                /\ ret' = [op |-> "enroll", user |-> u, course |-> c,
                           error |-> "", alreadyEnrolled |-> FALSE]
    /\ UNCHANGED <<courses, now, edits, repairJob, markJob, enrollJob, deleteJob>>

\* the call answering zero statistics where it throws for a missing enrollment
UpdateSubModuleProgress_NoThrow(u, c, moduleId, subModuleId) ==
    /\ IF ~users[u].exists
         THEN /\ ret' = Thrown("complete", u, c, "User not found")
              /\ UNCHANGED users
       ELSE IF EnrollmentIndex(users[u].enrollments, c) = 0
         THEN /\ ret' = [op |-> "complete", user |-> u, course |-> c,
                         error |-> "", progress |-> 0,
                         completedModules |-> 0, totalModules |-> 0]
              /\ UNCHANGED users
       ELSE LET k == EnrollmentIndex(users[u].enrollments, c)
                e == MarkCompleted(users[u].enrollments[k],
                                   moduleId, subModuleId, now)
            IN  /\ users' = [users EXCEPT ![u].enrollments[k] = e]
                /\ ret' = [op |-> "complete", user |-> u, course |-> c,
                           error |-> "",
                           progress |-> e.progress,
                           completedModules |-> e.completedModules,
                           totalModules |-> e.totalModules]
    /\ UNCHANGED <<courses, now, edits, repairJob, markJob, enrollJob, deleteJob>>

\* updateSubModuleProgress(userId, courseId, moduleId, subModuleId)
UpdateSubModuleProgress(u, c, moduleId, subModuleId) ==
    /\ IF ~users[u].exists
         THEN /\ ret' = Thrown("complete", u, c, "User not found")
              /\ UNCHANGED users
       ELSE IF EnrollmentIndex(users[u].enrollments, c) = 0
         THEN /\ ret' = Thrown("complete", u, c,
                               "User not enrolled in this course")
              /\ UNCHANGED users
       ELSE LET k == EnrollmentIndex(users[u].enrollments, c)
                e == MarkCompleted(users[u].enrollments[k],
                                   moduleId, subModuleId, now)
            IN  /\ users' = [users EXCEPT ![u].enrollments[k] = e]
                /\ ret' = [op |-> "complete", user |-> u, course |-> c,
                           error |-> "",
                           progress |-> e.progress,
                           completedModules |-> e.completedModules,
                           totalModules |-> e.totalModules]
    /\ UNCHANGED <<courses, now, edits, repairJob, markJob, enrollJob, deleteJob>>

\* every enrollment of a user found reconciled with the indexing of the course
ReconciledUsers_EveryEnrollment(found, courseId, newIndexing, t) ==
    [u \in found |->
        [users[u] EXCEPT !.enrollments =
            [k \in 1..Len(@) |-> ReconcileEnrollment(@[k], newIndexing, t)]]]

\* The documents of updateUserProgressForCourseChange after its loop: every
\* user found has the first enrollment for the course reconciled.
ReconciledUsers(found, courseId, newIndexing, t) ==
    [u \in found |->
        LET k == EnrollmentIndex(users[u].enrollments, courseId)
        IN  [users[u] EXCEPT !.enrollments[k] =
                ReconcileEnrollment(@, newIndexing, t)]]

\* validateAndRepairCourseIndexing(courseId), with the batch it runs
RepairCourse(c) ==
    /\ IF ~courses[c].exists
         THEN /\ ret' = Thrown("repair", "", c, "Course not found")
              /\ UNCHANGED <<courses, users>>
       ELSE LET newIndexing == indexCourseModules(c, courses[c].modules)
                found == EnrolledUsers(c)
                docs == ReconciledUsers(found, c, newIndexing, now)
            IN  /\ courses' = [courses EXCEPT ![c].modules =
                                  IndexedModules(c, @)]
                /\ users' = [u \in DOMAIN users |->
                                IF u \in found THEN docs[u] ELSE users[u]]
                /\ ret' = [op |-> "repair", user |-> "", course |-> c,
                           error |-> "",
                           usersUpdated |-> Cardinality(found),
                           totalSubModules |-> newIndexing.totalSubModules]
    /\ UNCHANGED <<now, edits, repairJob, markJob, enrollJob, deleteJob>>

----------------------------------------------------------------------------
(* Reading the progress of one course *)

RecentLimit == 5        \* .slice(0, 5)

\* the entries without the archived ones dropped
ActiveProgress_All(moduleProgress) == moduleProgress

\* enrollment.moduleProgress.filter(p => !p.archived)
ActiveProgress(moduleProgress) ==
    SelectSeq(moduleProgress, LAMBDA p : ~p.archived)

ProgressView(p) ==
    [moduleId |-> p.moduleId, subModuleId |-> p.subModuleId,
     completed |-> p.completed, completedAt |-> p.completedAt,
     lastVisited |-> p.lastVisited]

\* p placed into a list sorted by lastVisited, latest first, behind the
\* entries of the list with the same lastVisited
InsertByLastVisited(sorted, p) ==
    LET n == Cardinality({i \in 1..Len(sorted) :
                             sorted[i].lastVisited >= p.lastVisited})
    IN  SubSeq(sorted, 1, n) \o <<p>> \o SubSeq(sorted, n + 1, Len(sorted))

\* .sort((a, b) => b.lastVisited - a.lastVisited): stable, latest first
RECURSIVE SortByLastVisited(_)
SortByLastVisited(s) ==
    IF s = <<>> THEN <<>>
    ELSE InsertByLastVisited(SortByLastVisited(SubSeq(s, 1, Len(s) - 1)),
                             s[Len(s)])

\* the latest visits without the sort
RecentActivity_Unsorted(activeProgress) ==
    LET visited == SelectSeq(activeProgress, LAMBDA p : p.lastVisited # Null)
    IN  SubSeq(visited, 1,
               IF Len(visited) < RecentLimit THEN Len(visited)
               ELSE RecentLimit)

\* activeProgress.filter(p => p.lastVisited).sort(...).slice(0, 5)
RecentActivity(activeProgress) ==
    LET visited == SortByLastVisited(
                       SelectSeq(activeProgress,
                                 LAMBDA p : p.lastVisited # Null))
    IN  SubSeq(visited, 1,
               IF Len(visited) < RecentLimit THEN Len(visited)
               ELSE RecentLimit)

\* what populate('enrollments.course') leaves in enrollment.course: the
\* course document, or null when the course is not in the collection
Populated(courseId) == courses[courseId].exists

\* getUserCourseProgress(userId, courseId).  find() tests the enrollments in
\* their order and reads e.course._id of each: on an enrollment whose course
\* is null that read throws a TypeError.
GetProgress(u, c) ==
    /\ IF ~users[u].exists
         THEN ret' = Thrown("progress", u, c, "User not found")
       ELSE LET es == users[u].enrollments
                stop == FindIndex(es, LAMBDA e : ~Populated(e.course)
                                                 \/ e.course = c)
            IN  IF stop = 0
                THEN ret' = [op |-> "progress", user |-> u, course |-> c,
                             error |-> "", enrolled |-> FALSE, progress |-> 0]
                ELSE IF ~Populated(es[stop].course)
                THEN ret' = Thrown("progress", u, c, "TypeError")
                ELSE LET activeProgress ==
                             ActiveProgress(es[stop].moduleProgress)
                     IN  ret' = [op |-> "progress", user |-> u, course |-> c,
                                 error |-> "", enrolled |-> TRUE,
                                 progress |-> es[stop].progress,
                                 completedModules |-> es[stop].completedModules,
                                 totalModules |-> es[stop].totalModules,
                                 enrolledAt |-> es[stop].enrolledAt,
                                 lastAccessed |-> es[stop].lastAccessed,
                                 moduleProgress |->
                                     MapSeq(activeProgress, ProgressView),
                                 recentActivity |->
                                     RecentActivity(activeProgress)]
    /\ UNCHANGED <<courses, users, now, edits, repairJob, markJob, enrollJob, deleteJob>>

----------------------------------------------------------------------------
(* Deleting a course *)

\* $pull: {enrollments: {course: courseId}} on one user
PulledEnrollments(enrollments, courseId) ==
    SelectSeq(enrollments, LAMBDA e : e.course # courseId)

\* removeCourseFromEnrollments(courseId): User.updateMany over the users
\* that hold an enrollment for the course
removeCourseFromEnrollments(courseId) ==
    [u \in DOMAIN users |->
        [users[u] EXCEPT !.enrollments = PulledEnrollments(@, courseId)]]

\* DELETE /courses/:id: Course.findByIdAndDelete runs the schema's
\* pre('findOneAndDelete') hook, which purges the enrollments, and then
\* deletes the course
DeleteCourse(c) ==
    /\ courses[c].exists
    /\ users' = removeCourseFromEnrollments(c)
    /\ courses' = [courses EXCEPT ![c] = [exists |-> FALSE, modules |-> <<>>]]
    /\ ret' = [op |-> "deleteCourse", user |-> "", course |-> c, error |-> ""]
    /\ UNCHANGED <<now, edits, repairJob, markJob, enrollJob, deleteJob>>

----------------------------------------------------------------------------
(* Inputs of the calls *)

IndexKeys(c) ==
    {<<item.moduleId, item.subModuleId>> :
        item \in Range(indexCourseModules(c, courses[c].modules).indexed)}

FirstKey(c) ==
    LET indexed == indexCourseModules(c, courses[c].modules).indexed
    IN  IF indexed = <<>> THEN {}
        ELSE {<<indexed[1].moduleId, indexed[1].subModuleId>>}

EntryKeys(u, c) ==
    LET k == EnrollmentIndex(users[u].enrollments, c)
    IN  IF k = 0 THEN {}
        ELSE {<<p.moduleId, p.subModuleId>> :
                 p \in Range(users[u].enrollments[k].moduleProgress)}

\* keys a client sends: a leaf of the course, a leaf it has an entry for, the
\* first leaf of the course under a wrong module id, a leaf no course has
CompletionKeys(u, c) ==
    IndexKeys(c) \cup EntryKeys(u, c)
    \cup {<<BogusModuleId, key[2]>> : key \in FirstKey(c)}
    \cup {<<BogusModuleId, BogusSubModuleId>>}

\* PUT /:courseId/module/:moduleId/submodule/:subModuleId
Complete(u, c) ==
    \E key \in CompletionKeys(u, c) :
        UpdateSubModuleProgress(u, c, key[1], key[2])

Next ==
    \/ \E c \in CourseIds : AddModule(c)
    \/ \E c \in CourseIds, i \in 1..MaxModules : DeleteModule(c, i)
    \/ \E c \in CourseIds, i \in 1..MaxModules,
          id \in {NoId} : AddSubModule(c, i, id)
    \/ \E c \in CourseIds, i \in 1..MaxModules, j \in 1..MaxSubModules :
          RemoveSubModule(c, i, j)
    \/ \E u \in {"u1"}, c \in CourseIds : Enroll(u, c)
    \/ \E u \in {"u1"}, c \in CourseIds : Complete(u, c)
    \/ \E c \in CourseIds : RepairCourse(c)

Spec == Init /\ [][Next]_vars

\* One course of one module and one learner, with time passing between the
\* calls; the learner completes leaves of the course or of its own entries.
InitClock ==
    /\ Init
    /\ \A c \in CourseIds : courses[c].modules = AuthoredModules(<<2>>)

CompleteTracked(u, c) ==
    \E key \in IndexKeys(c) \cup EntryKeys(u, c) :
        UpdateSubModuleProgress(u, c, key[1], key[2])

NextClock ==
    \/ Tick
    \/ \E c \in CourseIds : AddSubModule(c, 1, NoId)
    \/ \E c \in CourseIds, j \in 1..MaxSubModules : RemoveSubModule(c, 1, j)
    \/ \E c \in CourseIds : Enroll("u1", c)
    \/ \E c \in CourseIds : CompleteTracked("u1", c)
    \/ \E c \in CourseIds : RepairCourse(c)

SpecClock == InitClock /\ [][NextClock]_vars

----------------------------------------------------------------------------
(* The same two calls as interleaved requests.  Each `await` of a database *)
(* call is a point where the other request may run: a call first loads its *)
(* documents, changes them in memory, and saves them in a later step.      *)
(* save() of the batch writes the moduleProgress array and the three       *)
(* statistics it assigned; save() of a completion writes the enrollment it *)
(* changed.  No version is compared by either.                             *)

\* validateAndRepairCourseIndexing up to the end of the loop over the users
RepairLoad(c) ==
    /\ repairJob.pc # "loaded"
    /\ courses[c].exists
    /\ LET newIndexing == indexCourseModules(c, courses[c].modules)
           found == EnrolledUsers(c)
       IN  /\ courses' = [courses EXCEPT ![c].modules = IndexedModules(c, @)]
           /\ repairJob' = [pc |-> "loaded", course |-> c, pending |-> found,
                            docs |-> ReconciledUsers(found, c, newIndexing, now),
                            found |-> found, failed |-> {}]
    /\ UNCHANGED <<users, now, ret, edits, markJob, enrollJob, deleteJob>>

\* The batch when every save has settled.  Promise.all resolves when all
\* saves resolved, and the call returns usersUpdated, the number of users the
\* loop went through; it rejects with the error of a save that rejected, and
\* the call throws that error (no later than here).
Settled(job, failed) ==
    IF failed = {}
    THEN [pc |-> "done", course |-> job.course, found |-> job.found,
          docs |-> job.docs, failed |-> failed,
          usersUpdated |-> Cardinality(job.found)]
    ELSE [pc |-> "thrown", course |-> job.course, found |-> job.found,
          docs |-> job.docs, failed |-> failed]

\* one user.save() of `Promise.all(users.map(user => user.save()))`
RepairSave(u) ==
    /\ repairJob.pc = "loaded"
    /\ u \in repairJob.pending
    /\ LET c == repairJob.course
           k == EnrollmentIndex(repairJob.docs[u].enrollments, c)
           e == repairJob.docs[u].enrollments[k]
       IN  users' = [users EXCEPT ![u].enrollments[k] =
                        [@ EXCEPT !.moduleProgress   = e.moduleProgress,
                                  !.totalModules     = e.totalModules,
                                  !.completedModules = e.completedModules,
                                  !.progress         = e.progress]]
    /\ repairJob' = IF repairJob.pending = {u}
                    THEN Settled(repairJob, repairJob.failed)
                    ELSE [repairJob EXCEPT !.pending = @ \ {u}]
    /\ UNCHANGED <<courses, now, ret, edits, markJob, enrollJob, deleteJob>>

\* a rejected save that stops the saves still pending
RepairSaveFails_Abort(u) ==
    /\ repairJob.pc = "loaded"
    /\ u \in repairJob.pending
    /\ repairJob' = Settled(repairJob, repairJob.failed \cup {u})
    /\ UNCHANGED <<courses, users, now, ret, edits, markJob, enrollJob, deleteJob>>

\* one user.save() of the batch rejects: nothing of that user is written
RepairSaveFails(u) ==
    /\ repairJob.pc = "loaded"
    /\ u \in repairJob.pending
    /\ repairJob' = IF repairJob.pending = {u}
                    THEN Settled(repairJob, repairJob.failed \cup {u})
                    ELSE [repairJob EXCEPT !.pending = @ \ {u},
                                           !.failed = @ \cup {u}]
    /\ UNCHANGED <<courses, users, now, ret, edits, markJob, enrollJob, deleteJob>>

\* updateSubModuleProgress up to its `await user.save()`
CompleteLoad(u, c, moduleId, subModuleId) ==
    /\ markJob.pc # "loaded"
    /\ users[u].exists
    /\ EnrollmentIndex(users[u].enrollments, c) # 0
    /\ LET k == EnrollmentIndex(users[u].enrollments, c)
       IN  markJob' = [pc |-> "loaded", user |-> u, course |-> c,
                       moduleId |-> moduleId, subModuleId |-> subModuleId,
                       index |-> k,
                       doc |-> MarkCompleted(users[u].enrollments[k],
                                             moduleId, subModuleId, now)]
    /\ UNCHANGED <<courses, users, now, ret, edits, repairJob, enrollJob, deleteJob>>

\* its `await user.save()` and return
CompleteSave ==
    /\ markJob.pc = "loaded"
    /\ users' = [users EXCEPT
                    ![markJob.user].enrollments[markJob.index] = markJob.doc]
    /\ markJob' = [pc |-> "done", user |-> markJob.user,
                   course |-> markJob.course,
                   moduleId |-> markJob.moduleId,
                   subModuleId |-> markJob.subModuleId]
    /\ UNCHANGED <<courses, now, ret, edits, repairJob, enrollJob, deleteJob>>

CompleteLoadTracked(u, c) ==
    \E key \in IndexKeys(c) \cup EntryKeys(u, c) :
        CompleteLoad(u, c, key[1], key[2])

NextRace ==
    \/ \E c \in CourseIds : AddSubModule(c, 1, NoId)
    \/ \E c \in CourseIds, j \in 1..MaxSubModules : RemoveSubModule(c, 1, j)
    \/ \E c \in CourseIds : Enroll("u1", c)
    \/ \E c \in CourseIds : RepairLoad(c)
    \/ \E u \in UserIds : RepairSave(u)
    \/ \E c \in CourseIds : CompleteLoadTracked("u1", c)
    \/ CompleteSave

SpecRace == InitClock /\ [][NextRace]_vars

----------------------------------------------------------------------------
(* A reconciliation batch over two learners whose saves may fail.          *)

NextBatch ==
    \/ \E c \in CourseIds, j \in 1..MaxSubModules : RemoveSubModule(c, 1, j)
    \/ \E u \in UserIds, c \in CourseIds : Enroll(u, c)
    \/ \E c \in CourseIds : CompleteTracked("u1", c)
    \/ \E c \in CourseIds : RepairLoad(c)
    \/ \E u \in UserIds : RepairSave(u)
    \/ \E u \in UserIds : RepairSaveFails(u)

SpecBatch == InitClock /\ [][NextBatch]_vars

----------------------------------------------------------------------------
(* Enroll calls as interleaved requests.  A call loads the course and the  *)
(* user, tests the loaded copy for an enrollment, and pushes and saves in  *)
(* a later step.  save() after enrollments.push(e) sends the pushed        *)
(* element alone: it is appended to the array as stored at that moment.    *)

\* initializeEnrollmentProgress up to its `await user.save()`
EnrollLoad(r, u, c) ==
    /\ enrollJob[r].pc # "loaded"
    /\ courses[c].exists
    /\ users[u].exists
    /\ enrollJob' = [enrollJob EXCEPT ![r] =
          IF EnrollmentIndex(users[u].enrollments, c) # 0
          THEN [pc |-> "done", user |-> u, course |-> c,
                alreadyEnrolled |-> TRUE]
          ELSE [pc |-> "loaded", user |-> u, course |-> c,
                enrollment |->
                    NewEnrollment(c, indexCourseModules(c, courses[c].modules),
                                  now)]]
    /\ UNCHANGED <<courses, users, now, ret, edits, repairJob, markJob,
                   deleteJob>>

\* its `await user.save()` and return
EnrollSave(r) ==
    /\ enrollJob[r].pc = "loaded"
    /\ users' = [users EXCEPT ![enrollJob[r].user].enrollments =
                    Append(@, enrollJob[r].enrollment)]
    /\ enrollJob' = [enrollJob EXCEPT ![r] =
          [pc |-> "done", user |-> @.user, course |-> @.course,
           alreadyEnrolled |-> FALSE]]
    /\ UNCHANGED <<courses, now, ret, edits, repairJob, markJob, deleteJob>>

NextEnrollRace ==
    \/ \E c \in CourseIds : AddSubModule(c, 1, NoId)
    \/ \E c \in CourseIds, j \in 1..MaxSubModules : RemoveSubModule(c, 1, j)
    \/ \E r \in Requests, u \in UserIds, c \in CourseIds : EnrollLoad(r, u, c)
    \/ \E r \in Requests : EnrollSave(r)

SpecEnrollRace == InitClock /\ [][NextEnrollRace]_vars

----------------------------------------------------------------------------
(* Two courses that may be deleted while learners enroll, complete and     *)
(* read.  An enroll request loaded before the course is deleted and saved  *)
(* after it leaves an enrollment whose course is gone.                     *)

CatalogIds == {"c1", "c2"}

\* DELETE /users/:id
DeleteUser(u) ==
    /\ users[u].exists
    /\ users' = [users EXCEPT ![u] = [exists |-> FALSE, enrollments |-> <<>>]]
    /\ ret' = [op |-> "deleteUser", user |-> u, course |-> "", error |-> ""]
    /\ UNCHANGED <<courses, now, edits, repairJob, markJob, enrollJob, deleteJob>>

InitDelete ==
    /\ courses = [c \in CatalogIds |->
                     [exists |-> TRUE, modules |-> AuthoredModules(<<1>>)]]
    /\ edits = 0
    /\ users = [u \in UserIds |-> [exists |-> TRUE, enrollments |-> <<>>]]
    /\ now = 1
    /\ ret = [op |-> "none"]
    /\ repairJob = Idle
    /\ markJob = Idle
    /\ enrollJob = [r \in Requests |-> Idle]
    /\ deleteJob = Idle

NextDelete ==
    \/ \E c \in CatalogIds : Enroll("u1", c)
    \/ \E c \in CatalogIds : EnrollLoad("r1", "u1", c)
    \/ EnrollSave("r1")
    \/ \E c \in CatalogIds : CompleteTracked("u1", c)
    \/ \E c \in CatalogIds : GetProgress("u1", c)
    \/ \E c \in CatalogIds : DeleteCourse(c)

SpecDelete == InitDelete /\ [][NextDelete]_vars

\* One course and its learners, either of which an administrator may delete.
NextAbsent ==
    \/ \E u \in UserIds, c \in CourseIds : Enroll(u, c)
    \/ \E u \in UserIds, c \in CourseIds : Complete(u, c)
    \/ \E c \in CourseIds : RepairCourse(c)
    \/ \E c \in CourseIds : DeleteCourse(c)
    \/ \E u \in UserIds : DeleteUser(u)

SpecAbsent == InitClock /\ [][NextAbsent]_vars

----------------------------------------------------------------------------
(* Reads of an enrollment of MaxEntries entries.  Each entry is unvisited, *)
(* or completed and visited at some time, or completed at time 1 and       *)
(* archived since.                                                         *)

EntryShapes ==
    {sh \in [lastVisited : 0..MaxClock, archived : BOOLEAN] :
        sh.archived => sh.lastVisited = 1}

ShapedEntry(c, i, sh) ==
    [moduleId |-> generateModuleId(c, 1),
     subModuleId |-> generateSubModuleId(c, 1, i),
     completed |-> sh.lastVisited # Null, completedAt |-> sh.lastVisited,
     lastVisited |-> sh.lastVisited,
     archived |-> sh.archived,
     archivedAt |-> IF sh.archived THEN MaxClock ELSE Null]

ShapedEnrollment(c, shapes) ==
    LET moduleProgress == [i \in 1..MaxEntries |-> ShapedEntry(c, i, shapes[i])]
        completedCount == CountIf(moduleProgress, IsCompletedActive)
    IN  [course |-> c, enrolledAt |-> 1, lastAccessed |-> MaxClock,
         progress |-> CalcProgress(completedCount, MaxEntries),
         totalModules |-> MaxEntries,
         completedModules |-> completedCount,
         moduleProgress |-> moduleProgress]

InitRead ==
    /\ courses = [c \in CourseIds |->
                     [exists |-> TRUE,
                      modules |-> IndexedModules(c,
                                      AuthoredModules(<<MaxEntries>>))]]
    /\ edits = 0
    /\ \E shapes \in [1..MaxEntries -> EntryShapes] :
          users = [u \in UserIds |->
                     [exists |-> TRUE,
                      enrollments |->
                          IF u = "u1"
                          THEN <<ShapedEnrollment("c1", shapes)>>
                          ELSE <<>>]]
    /\ now = MaxClock
    /\ ret = [op |-> "none"]
    /\ repairJob = Idle
    /\ markJob = Idle
    /\ enrollJob = [r \in Requests |-> Idle]
    /\ deleteJob = Idle

NextRead == \E c \in CourseIds : GetProgress("u1", c)

SpecRead == InitRead /\ [][NextRead]_vars

----------------------------------------------------------------------------
(* Authoring a hierarchy whose nodes carry ids and orders of the author's  *)
(* own, with write-back indexing between the edits                         *)

ExplicitOrder == 7      \* an order an author writes into a subModule

\* the body of PUT /courses/:courseId/modules lists two neighbouring
\* subModules of a module in the other order
SwapSubModules(c, moduleIndex, subModuleIndex) ==
    /\ courses[c].exists /\ edits < MaxEdits
    /\ moduleIndex \in 1..Len(courses[c].modules)
    /\ subModuleIndex \in 1..(Len(courses[c].modules[moduleIndex].subModules) - 1)
    /\ LET subs == courses[c].modules[moduleIndex].subModules
       IN  courses' = [courses EXCEPT
                          ![c].modules[moduleIndex].subModules =
                              [subs EXCEPT ![subModuleIndex] = subs[subModuleIndex + 1],
                                           ![subModuleIndex + 1] = subs[subModuleIndex]]]
    /\ ret' = [op |-> "edit"]
    /\ edits' = edits + 1
    /\ UNCHANGED <<users, now, repairJob, markJob, enrollJob, deleteJob>>

\* the body of PUT /courses/:courseId/modules gives a subModule an order
SetSubModuleOrder(c, moduleIndex, subModuleIndex, order) ==
    /\ courses[c].exists /\ edits < MaxEdits
    /\ moduleIndex \in 1..Len(courses[c].modules)
    /\ subModuleIndex \in 1..Len(courses[c].modules[moduleIndex].subModules)
    /\ courses' = [courses EXCEPT
                      ![c].modules[moduleIndex].subModules[subModuleIndex].order =
                          order]
    /\ ret' = [op |-> "edit"]
    /\ edits' = edits + 1
    /\ UNCHANGED <<users, now, repairJob, markJob, enrollJob, deleteJob>>

NextIndex ==
    \E c \in CourseIds :
        \/ AddModule(c)
        \/ \E i \in 1..MaxModules :
              \/ DeleteModule(c, i)
              \/ \E id \in {NoId} \cup PinnedSubModuleIds : AddSubModule(c, i, id)
              \/ \E j \in 1..MaxSubModules :
                    \/ RemoveSubModule(c, i, j)
                    \/ SwapSubModules(c, i, j)
                    \/ SetSubModuleOrder(c, i, j, ExplicitOrder)
        \/ Enroll("u1", c)
        \/ RepairCourse(c)

SpecIndex == Init /\ [][NextIndex]_vars

----------------------------------------------------------------------------
(* DELETE /courses/:id as the two database commands it ends with: the      *)
(* updateMany of the pre('findOneAndDelete') hook, which purges the        *)
(* enrollments, and the delete of the course document, which the driver    *)
(* sends when the hook has called next().  Other requests run between.     *)

\* the route up to the end of removeCourseFromEnrollments in the hook
DeletePurge(c) ==
    /\ deleteJob = Idle
    /\ courses[c].exists
    /\ users' = removeCourseFromEnrollments(c)
    /\ deleteJob' = [pc |-> "purged", course |-> c]
    /\ UNCHANGED <<courses, now, ret, edits, repairJob, markJob, enrollJob>>

\* the delete of the course document and the answer of the route
DeleteRemove ==
    /\ deleteJob.pc = "purged"
    /\ courses' = [courses EXCEPT
                      ![deleteJob.course] = [exists |-> FALSE, modules |-> <<>>]]
    /\ ret' = [op |-> "deleteCourse", user |-> "",
               course |-> deleteJob.course, error |-> ""]
    /\ deleteJob' = Idle
    /\ UNCHANGED <<users, now, edits, repairJob, markJob, enrollJob>>

NextDeleteRace ==
    \/ \E u \in UserIds, c \in CatalogIds : Enroll(u, c)
    \/ \E c \in CatalogIds : CompleteTracked("u1", c)
    \/ \E c \in CatalogIds : DeletePurge(c)
    \/ DeleteRemove

SpecDeleteRace == InitDelete /\ [][NextDeleteRace]_vars

----------------------------------------------------------------------------
(* Two courses and two learners: what a call for one course and one        *)
(* learner leaves alone.  The first learner takes both courses, the second *)
(* the second course only; the author removes leaves of the first course.  *)

NextFrame ==
    \/ \E c \in CatalogIds : Enroll("u1", c)
    \/ Enroll("u2", "c2")
    \/ \E c \in CatalogIds : CompleteTracked("u1", c)
    \/ CompleteTracked("u2", "c2")
    \/ \E c \in CatalogIds : RepairCourse(c)
    \/ \E c \in CourseIds, j \in 1..MaxSubModules : RemoveSubModule(c, 1, j)

SpecFrame == InitDelete /\ [][NextFrame]_vars

----------------------------------------------------------------------------
(* Database maintenance: cleanupInvalidEnrollments (utils/dbCleanup.js).   *)
(* It walks the list of enrollments User.js declares, enrolledCourses; the *)
(* model keeps one list of enrollments for a user.                         *)

\* the enrollments kept by the inner loop: populate left a course in place
\* and Course.findById finds it
ValidEnrollments(enrollments) ==
    SelectSeq(enrollments, LAMBDA e : courses[e.course].exists)

\* the user document after `user.enrolledCourses = validEnrollments`
CleanedUser(user) ==
    [user EXCEPT !.enrollments = ValidEnrollments(@)]

\* what one user adds to totalCleaned: the length of user.enrolledCourses,
\* read after the assignment, less the length of validEnrollments
CleanedCount(user) ==
    IF Len(ValidEnrollments(user.enrollments)) # Len(user.enrollments)
    THEN Len(CleanedUser(user).enrollments)
            - Len(ValidEnrollments(user.enrollments))
    ELSE 0

\* totalCleaned after the loop over the users found
RECURSIVE TotalCleaned(_)
TotalCleaned(found) ==
    IF found = {} THEN 0
    ELSE LET u == CHOOSE x \in found : TRUE
         IN  CleanedCount(users[u]) + TotalCleaned(found \ {u})

\* cleanupInvalidEnrollments(), from its first line to its return
CleanupInvalidEnrollments ==
    LET found == {u \in DOMAIN users :
                     users[u].exists /\ users[u].enrollments # <<>>}
    IN  /\ users' = [u \in DOMAIN users |->
                        IF u \in found THEN CleanedUser(users[u]) ELSE users[u]]
        /\ ret' = [op |-> "cleanup", user |-> "", course |-> "", error |-> "",
                   totalCleaned |-> TotalCleaned(found)]
        /\ UNCHANGED <<courses, now, edits, repairJob, markJob, enrollJob,
                       deleteJob>>

NextCleanup ==
    \/ \E u \in UserIds, c \in CatalogIds : Enroll(u, c)
    \/ \E c \in CatalogIds : DeletePurge(c)
    \/ DeleteRemove
    \/ CleanupInvalidEnrollments

SpecCleanup == InitDelete /\ [][NextCleanup]_vars

----------------------------------------------------------------------------
(* Properties *)

EnrollmentsOf(u) == Range(users[u].enrollments)

Enrollments == UNION {EnrollmentsOf(u) : u \in UserIds}

KeyOf(p) == <<p.moduleId, p.subModuleId>>

CompletedKeys(e) ==
    {KeyOf(p) : p \in {q \in Range(e.moduleProgress) : q.completed}}

ArchivedKeys(e) ==
    {KeyOf(p) : p \in {q \in Range(e.moduleProgress) : q.archived}}

ActiveKeys(e) ==
    {KeyOf(p) : p \in {q \in Range(e.moduleProgress) : ~q.archived}}

NumCompletedNotArchived(e) ==
    Cardinality({i \in 1..Len(e.moduleProgress) :
                    e.moduleProgress[i].completed
                    /\ ~e.moduleProgress[i].archived})

\* C1: every enrollment has 0 <= completedModules <= totalModules.
C1_CompletedWithinTotal ==
    \A e \in Enrollments :
        0 <= e.completedModules /\ e.completedModules <= e.totalModules

\* C2: every enrollment has 0 <= progress <= 100.
C2_PercentWithinBounds ==
    \A e \in Enrollments : 0 <= e.progress /\ e.progress <= 100

\* C3: an enrollment whose totalModules is 0 has progress 0, also when it
\* holds completed entries.
C3_ZeroTotalZeroPercent ==
    \A e \in Enrollments : e.totalModules = 0 => e.progress = 0

\* a completion was just recorded in an enrollment over an empty index
C3_Witness ==
    /\ ret.op = "complete" /\ ret.error = ""
    /\ \E e \in Enrollments :
          /\ e.totalModules = 0
          /\ NumCompletedNotArchived(e) > 0

\* C4: after a reconciliation pass the keys of the active entries of every
\* reconciled enrollment are exactly the keys of the target indexing.
C4_ActiveKeysEqualTarget ==
    (ret.op = "repair" /\ ret.error = "") =>
        \A u \in EnrolledUsers(ret.course) :
            LET k == EnrollmentIndex(users[u].enrollments, ret.course)
            IN  ActiveKeys(users[u].enrollments[k]) = IndexKeys(ret.course)

\* C5: no enrollment holds two active entries with the same
\* (moduleId, subModuleId) key.
C5_NoDuplicateActiveKeys ==
    \A e \in Enrollments :
        \A i, j \in 1..Len(e.moduleProgress) :
            (/\ i # j
             /\ ~e.moduleProgress[i].archived
             /\ ~e.moduleProgress[j].archived)
            => KeyOf(e.moduleProgress[i]) # KeyOf(e.moduleProgress[j])

ArchivedAreCompleted ==
    \A e \in Enrollments :
        \A p \in Range(e.moduleProgress) : p.archived => p.completed

\* a key becomes archived only in a reconciliation pass, for an entry that
\* was completed and whose key the target indexing does not have
ArchivedOnlyByReconcile ==
    \A u \in UserIds :
        \A k \in 1..Len(users'[u].enrollments) :
            LET after == users'[u].enrollments[k]
            IN  IF k > Len(users[u].enrollments)
                THEN ArchivedKeys(after) = {}
                ELSE LET before == users[u].enrollments[k]
                     IN  \A key \in ArchivedKeys(after) \ ArchivedKeys(before) :
                            /\ ret'.op = "repair"
                            /\ ret'.course = before.course
                            /\ key \in CompletedKeys(before)
                            /\ key \notin IndexKeys(before.course)

\* C6: every archived entry is completed, and an entry becomes archived only
\* in a reconciliation pass in which its leaf is absent from the target
\* indexing and the entry was already completed.
C6_ArchiveInvariant ==
    []ArchivedAreCompleted /\ [][ArchivedOnlyByReconcile]_vars

\* a reconciliation pass has just left an archived entry
C6_Witness ==
    /\ ret.op = "repair"
    /\ \E e \in Enrollments : ArchivedKeys(e) # {}

\* C7: the stored completedModules is the number of entries that are
\* completed and not archived.
C7_CompletedCountExact ==
    \A e \in Enrollments : e.completedModules = NumCompletedNotArchived(e)

\* an enrollment with an archived entry next to a completed active one
C7_Witness ==
    \E e \in Enrollments :
        /\ ArchivedKeys(e) # {}
        /\ NumCompletedNotArchived(e) > 0
        /\ Cardinality(CompletedKeys(e)) > NumCompletedNotArchived(e)

\* C8: a key that has a completed entry in an enrollment has one in every
\* later state of that enrollment, active or archived.
C8_NoLostCompletion ==
    [][\A u \in UserIds :
          \A k \in 1..Len(users[u].enrollments) :
              /\ k <= Len(users'[u].enrollments)
              /\ users'[u].enrollments[k].course = users[u].enrollments[k].course
              /\ CompletedKeys(users[u].enrollments[k])
                    \subseteq CompletedKeys(users'[u].enrollments[k])]_vars

\* a completed entry was archived and its leaf is in the index again
C8_Witness ==
    \E e \in Enrollments :
        \E p \in Range(e.moduleProgress) :
            /\ p.archived /\ p.completed
            /\ KeyOf(p) \in IndexKeys(e.course)

\* C9: when a completion and a reconciliation batch of the same enrollment
\* have both finished, the completion is recorded: the enrollment holds a
\* completed entry for the key and its completedModules counts the entries
\* that are completed and not archived.
C9_CompletionSurvivesRepair ==
    (/\ markJob.pc = "done"
     /\ repairJob.pc = "done"
     /\ repairJob.course = markJob.course)
    => LET es == users[markJob.user].enrollments
           e == es[EnrollmentIndex(es, markJob.course)]
       IN  /\ <<markJob.moduleId, markJob.subModuleId>> \in CompletedKeys(e)
           /\ e.completedModules = NumCompletedNotArchived(e)

\* C10: a completion call for a key that already has a completed entry
\* changes only lastVisited of that entry and lastAccessed of the
\* enrollment: completedModules, progress, totalModules and the entry's
\* completed and completedAt stay as they were.
C10_RepeatedCompletionIdempotent ==
    [][\A u \in UserIds, c \in CourseIds :
          \A key \in IndexKeys(c) \cup EntryKeys(u, c) :
              LET k == EnrollmentIndex(users[u].enrollments, c)
                  before == users[u].enrollments[k]
                  after == users'[u].enrollments[k]
                  j == FindIndex(before.moduleProgress,
                                 LAMBDA p : KeyOf(p) = key)
              IN  (/\ k # 0
                   /\ key \in CompletedKeys(before)
                   /\ UpdateSubModuleProgress(u, c, key[1], key[2]))
                  => /\ after.completedModules = before.completedModules
                     /\ after.progress = before.progress
                     /\ after.totalModules = before.totalModules
                     /\ after.moduleProgress[j].completed
                     /\ before.moduleProgress[j].completed
                     /\ after.moduleProgress[j].completedAt
                           = before.moduleProgress[j].completedAt
                     /\ after = [before EXCEPT
                           !.lastAccessed = now,
                           !.moduleProgress[j].lastVisited = now]]_vars

\* a leaf was completed and, at a later time, completed a second time
C10_Witness ==
    /\ ret.op = "complete" /\ ret.error = ""
    /\ \E e \in Enrollments :
          \E p \in Range(e.moduleProgress) :
              /\ p.completed /\ ~p.archived
              /\ p.completedAt < p.lastVisited
              /\ p.lastVisited = e.lastAccessed

----------------------------------------------------------------------------
(* Repeated runs *)

\* C11: a repair of a course that directly follows a repair of the same
\* course, with no edit, enrollment or completion between the two, leaves
\* every user record as the first repair left it, archivedAt of the archived
\* entries included, also when time has passed between the two runs.
C11_RepairTwiceIdentical ==
    [][\A c \in CourseIds :
          (/\ ret.op = "repair" /\ ret.error = "" /\ ret.course = c
           /\ RepairCourse(c))
          => users' = users]_vars

\* C12: indexing the hierarchy a first indexing pass left behind returns the
\* list, the orders and the counts the first pass returned, and writes no id
\* and no order that the first pass had not written.
C12_IndexingIdempotent ==
    \A c \in CourseIds :
        LET first == IndexedModules(c, courses[c].modules)
        IN  /\ indexCourseModules(c, first)
                  = indexCourseModules(c, courses[c].modules)
            /\ IndexedModules(c, first) = first

\* a stored hierarchy with a leaf that has no id yet next to a leaf whose id
\* an earlier pass wrote at another position
C12_Witness ==
    \E c \in CourseIds :
        \E i \in 1..Len(courses[c].modules) :
            LET subModules == courses[c].modules[i].subModules
            IN  /\ \E j \in 1..Len(subModules) : subModules[j].id = NoId
                /\ \E j \in 1..Len(subModules) :
                      /\ subModules[j].id # NoId
                      /\ subModules[j].id # generateSubModuleId(c, i, j)

\* C13: the subModuleIds of the list one indexing pass returns for a stored
\* hierarchy are pairwise distinct.
C13_LeafIdsDistinct ==
    \A c \in CourseIds :
        LET indexed == indexCourseModules(c, courses[c].modules).indexed
        IN  \A i, j \in 1..Len(indexed) :
                i # j => indexed[i].subModuleId # indexed[j].subModuleId

----------------------------------------------------------------------------
(* Enrollment *)

\* C14: an enroll call for a user who holds an enrollment for the course
\* returns without an error and with alreadyEnrolled = true, and leaves every
\* user record as it was.
C14_EnrollAgainUnchanged ==
    [][\A u \in UserIds, c \in CourseIds :
          (/\ \E e \in EnrollmentsOf(u) : e.course = c
           /\ Enroll(u, c))
          => /\ users' = users
             /\ ret'.op = "enroll" /\ ret'.error = ""
             /\ ret'.alreadyEnrolled]_vars

\* an enroll call has just answered alreadyEnrolled for a user whose
\* enrollment holds a completed entry
C14_Witness ==
    /\ ret.op = "enroll" /\ ret.error = "" /\ ret.alreadyEnrolled
    /\ \E e \in EnrollmentsOf(ret.user) :
          /\ e.course = ret.course
          /\ e.completedModules > 0
          /\ CompletedKeys(e) # {}

\* C15: an enroll call for a user without an enrollment for the course
\* appends one enrollment whose totalModules is the number of leaves of the
\* course's indexing, whose entries are, leaf by leaf of that indexing, one
\* entry with the leaf's key that is neither completed nor archived, and
\* whose completedModules and progress are 0; it returns
\* alreadyEnrolled = false and changes nothing else.
C15_EnrollSeedsProgress ==
    [][\A u \in UserIds, c \in CourseIds :
          (/\ ~ \E e \in EnrollmentsOf(u) : e.course = c
           /\ Enroll(u, c))
          => LET indexed == indexCourseModules(c, courses[c].modules).indexed
                 before == users[u].enrollments
                 after == users'[u].enrollments
                 e == after[Len(after)]
             IN  /\ ret'.op = "enroll" /\ ret'.error = ""
                 /\ ~ret'.alreadyEnrolled
                 /\ Len(after) = Len(before) + 1
                 /\ SubSeq(after, 1, Len(before)) = before
                 /\ \A v \in UserIds \ {u} : users'[v] = users[v]
                 /\ e.course = c
                 /\ e.totalModules = Len(indexed)
                 /\ e.completedModules = 0
                 /\ e.progress = 0
                 /\ Len(e.moduleProgress) = Len(indexed)
                 /\ \A i \in 1..Len(indexed) :
                       /\ KeyOf(e.moduleProgress[i])
                             = <<indexed[i].moduleId, indexed[i].subModuleId>>
                       /\ ~e.moduleProgress[i].completed
                       /\ ~e.moduleProgress[i].archived]_vars

\* an enroll call has just created an enrollment over two leaves
C15_Witness ==
    /\ ret.op = "enroll" /\ ret.error = "" /\ ~ret.alreadyEnrolled
    /\ \E e \in EnrollmentsOf(ret.user) :
          /\ e.course = ret.course
          /\ e.totalModules = 2
          /\ Len(e.moduleProgress) = 2

\* C16: no user holds two enrollments for the same course.
C16_OneEnrollmentPerCourse ==
    \A u \in UserIds :
        \A i, j \in 1..Len(users[u].enrollments) :
            i # j => users[u].enrollments[i].course
                        # users[u].enrollments[j].course

----------------------------------------------------------------------------
(* Completion calls *)

\* C17: a completion call for a user who holds no enrollment for the course
\* throws 'User not enrolled in this course' and leaves every user record as
\* it was: no enrollment and no entry is created.
C17_CompleteNotEnrolledFails ==
    [][\A u \in UserIds, c \in CourseIds :
          \A key \in CompletionKeys(u, c) :
              (/\ ~ \E e \in EnrollmentsOf(u) : e.course = c
               /\ UpdateSubModuleProgress(u, c, key[1], key[2]))
              => /\ ret'.op = "complete"
                 /\ ret'.error = "User not enrolled in this course"
                 /\ users' = users]_vars

\* a completion call for a leaf of the course has just been refused for a
\* user without enrollments
C17_Witness ==
    /\ ret.op = "complete"
    /\ ret.error = "User not enrolled in this course"
    /\ users[ret.user].enrollments = <<>>
    /\ IndexKeys(ret.course) # {}

\* C18: a completion call for an enrolled user and a (moduleId, subModuleId)
\* key that no entry of the enrollment has returns without an error: it
\* appends one entry with that key, completed, to the entries the enrollment
\* had, and returns the statistics of the enrollment.
C18_UnknownKeyCreatesEntry ==
    [][\A u \in UserIds, c \in CourseIds :
          \A key \in CompletionKeys(u, c) :
              LET k == EnrollmentIndex(users[u].enrollments, c)
                  before == users[u].enrollments[k]
                  after == users'[u].enrollments[k]
                  n == Len(before.moduleProgress)
              IN  (/\ k # 0
                   /\ \A p \in Range(before.moduleProgress) : KeyOf(p) # key
                   /\ UpdateSubModuleProgress(u, c, key[1], key[2]))
                  => /\ ret'.op = "complete" /\ ret'.error = ""
                     /\ Len(after.moduleProgress) = n + 1
                     /\ SubSeq(after.moduleProgress, 1, n)
                           = before.moduleProgress
                     /\ KeyOf(after.moduleProgress[n + 1]) = key
                     /\ after.moduleProgress[n + 1].completed
                     /\ ret'.progress = after.progress
                     /\ ret'.completedModules = after.completedModules
                     /\ ret'.totalModules = after.totalModules]_vars

\* a completion of a leaf that no course has was just recorded
C18_Witness ==
    /\ ret.op = "complete" /\ ret.error = ""
    /\ \E e \in EnrollmentsOf(ret.user) :
          \E p \in Range(e.moduleProgress) :
              /\ KeyOf(p) = <<BogusModuleId, BogusSubModuleId>>
              /\ p.completed

----------------------------------------------------------------------------
(* The steps of a reconciliation pass *)

\* C19: in a reconciliation pass of a course, an entry whose
\* (moduleId, subModuleId) key is not a key of the target indexing is kept
\* and archived when it is completed, and has no entry left for its key when
\* it is not completed.
C19_StaleArchivedOrDropped ==
    [][\A c \in CourseIds :
          RepairCourse(c) =>
              \A u \in EnrolledUsers(c) :
                  LET k == EnrollmentIndex(users[u].enrollments, c)
                      before == users[u].enrollments[k].moduleProgress
                      after == users'[u].enrollments[k].moduleProgress
                  IN  \A p \in Range(before) :
                          KeyOf(p) \notin IndexKeys(c) =>
                              IF p.completed
                              THEN /\ \E q \in Range(after) :
                                         KeyOf(q) = KeyOf(p)
                                   /\ \A q \in Range(after) :
                                         KeyOf(q) = KeyOf(p)
                                         => q.completed /\ q.archived
                              ELSE \A q \in Range(after) :
                                      KeyOf(q) # KeyOf(p)]_vars

\* number of entries with the key
EntriesWithKey(moduleProgress, key) ==
    Cardinality({i \in 1..Len(moduleProgress) :
                    KeyOf(moduleProgress[i]) = key})

\* C20: in a reconciliation pass of a course, a key of the target indexing
\* that no entry of the enrollment has gets exactly one entry, neither
\* completed nor archived, and a key that an entry has gets no further entry.
C20_OneNewEntryPerNewKey ==
    [][\A c \in CourseIds :
          RepairCourse(c) =>
              \A u \in EnrolledUsers(c) :
                  LET k == EnrollmentIndex(users[u].enrollments, c)
                      before == users[u].enrollments[k].moduleProgress
                      after == users'[u].enrollments[k].moduleProgress
                  IN  \A key \in IndexKeys(c) :
                          IF EntriesWithKey(before, key) = 0
                          THEN /\ EntriesWithKey(after, key) = 1
                               /\ \A q \in Range(after) :
                                     KeyOf(q) = key
                                     => ~q.completed /\ ~q.archived
                          ELSE EntriesWithKey(after, key)
                                  = EntriesWithKey(before, key)]_vars

----------------------------------------------------------------------------
(* Statistics *)

RECURSIVE SumLen(_)
SumLen(ss) == IF ss = <<>> THEN 0 ELSE Len(Head(ss)) + SumLen(Tail(ss))

\* number of subModules in the stored hierarchy of the course
LeafCount(c) ==
    SumLen([i \in 1..Len(courses[c].modules) |->
               courses[c].modules[i].subModules])

\* C21: after a reconciliation pass of a course, totalModules of every
\* reconciled enrollment is the number of leaves of the course's hierarchy.
C21_TotalIsTargetLeafCount ==
    (ret.op = "repair" /\ ret.error = "") =>
        \A u \in EnrolledUsers(ret.course) :
            LET k == EnrollmentIndex(users[u].enrollments, ret.course)
            IN  users[u].enrollments[k].totalModules = LeafCount(ret.course)

\* a pass has just lowered the total of an enrollment to one leaf: an entry
\* of a leaf the course had is archived
C21_Witness ==
    /\ ret.op = "repair" /\ ret.error = ""
    /\ LeafCount(ret.course) = 1
    /\ \E u \in EnrolledUsers(ret.course) :
          LET k == EnrollmentIndex(users[u].enrollments, ret.course)
              e == users[u].enrollments[k]
          IN  /\ e.totalModules = 1
              /\ \E p \in Range(e.moduleProgress) :
                    p.archived /\ p.moduleId # BogusModuleId

\* C22: the stored progress of every enrollment is
\* round(completedModules / totalModules * 100) brought into 0..100 when
\* totalModules > 0, and 0 when totalModules = 0.
C22_PercentIsClampedRatio ==
    \A e \in Enrollments :
        e.progress =
            IF e.totalModules > 0
            THEN LET r == (200 * e.completedModules + e.totalModules)
                              \div (2 * e.totalModules)
                 IN  IF r > 100 THEN 100 ELSE IF r < 0 THEN 0 ELSE r
            ELSE 0

----------------------------------------------------------------------------
(* Failures in the reconciliation batch *)

\* every user of the settled batch whose save did not fail has what the
\* batch computed: its total and an entry for every key of the computed list
SavedUsersReconciled ==
    repairJob.pc \in {"done", "thrown"} =>
        \A u \in repairJob.found \ repairJob.failed :
            LET c == repairJob.course
                e == users[u].enrollments[
                         EnrollmentIndex(users[u].enrollments, c)]
                d == repairJob.docs[u].enrollments[
                         EnrollmentIndex(repairJob.docs[u].enrollments, c)]
            IN  /\ e.totalModules = d.totalModules
                /\ {KeyOf(p) : p \in Range(d.moduleProgress)}
                      \subseteq {KeyOf(p) : p \in Range(e.moduleProgress)}

\* C23: when the save of one user fails in a reconciliation batch, the
\* enrollment of every other user the batch found is still saved as
\* reconciled, and the failure undoes nothing that was saved.
C23_FailureLeavesOthersSaved ==
    /\ []SavedUsersReconciled
    /\ [][\A u \in UserIds : RepairSaveFails(u) => users' = users]_vars

\* a batch over two users has settled: the save of one failed and it keeps
\* its old total, the other was saved with the new total
C23_Witness ==
    /\ repairJob.pc = "thrown"
    /\ \E u, v \in repairJob.found :
          /\ u \in repairJob.failed /\ v \notin repairJob.failed
          /\ LET c == repairJob.course
                 eu == users[u].enrollments[
                           EnrollmentIndex(users[u].enrollments, c)]
                 ev == users[v].enrollments[
                           EnrollmentIndex(users[v].enrollments, c)]
             IN  /\ ev.totalModules = LeafCount(c)
                 /\ eu.totalModules # LeafCount(c)

\* C24: a reconciliation batch does not throw because the save of a single
\* user failed.
C24_BatchNeverThrows ==
    repairJob.pc # "thrown"

----------------------------------------------------------------------------
(* Deleted courses and reads *)

HoldsEnrollment(u, c) == \E e \in EnrollmentsOf(u) : e.course = c

\* C25: no user holds an enrollment for a course that has been deleted, and
\* a progress read of a deleted course answers, without an error,
\* enrolled = false.
C25_DeletedCourseNotEnrolled ==
    /\ [](\A c \in CatalogIds :
             ~courses[c].exists => \A u \in UserIds : ~HoldsEnrollment(u, c))
    /\ [][\A u \in UserIds, c \in CatalogIds :
             (/\ users[u].exists
              /\ ~courses[c].exists
              /\ GetProgress(u, c))
             => ret'.error = "" /\ ~ret'.enrolled]_vars

\* C26: a progress read by an existing user who holds no enrollment for the
\* course answers, without an error, enrolled = false, and changes neither a
\* user nor a course.
C26_ReadNotEnrolled ==
    [][\A u \in UserIds, c \in CatalogIds :
          (/\ users[u].exists
           /\ ~HoldsEnrollment(u, c)
           /\ GetProgress(u, c))
          => /\ ret'.error = "" /\ ~ret'.enrolled
             /\ users' = users /\ courses' = courses]_vars

\* C27: a progress read of a course by a user who holds an enrollment for
\* another course that has been deleted answers without an error:
\* enrolled says whether the user holds an enrollment for the course read.
C27_StaleEnrollmentFiltered ==
    [][\A u \in UserIds, c \in CatalogIds :
          (/\ users[u].exists
           /\ \E d \in CatalogIds \ {c} :
                 ~courses[d].exists /\ HoldsEnrollment(u, d)
           /\ GetProgress(u, c))
          => /\ ret'.error = ""
             /\ ret'.enrolled = HoldsEnrollment(u, c)]_vars

----------------------------------------------------------------------------
(* The view a read returns *)

\* the enrollment a successful read has just returned
ReadEnrollment ==
    LET es == users[ret.user].enrollments
    IN  es[EnrollmentIndex(es, ret.course)]

ReadReturned == ret.op = "progress" /\ ret.error = "" /\ ret.enrolled

\* C28: the moduleProgress list a read returns has one element for every
\* entry of the enrollment that is not archived, with the fields of that
\* entry, and none for an archived entry.
C28_ViewIsActiveEntries ==
    ReadReturned =>
        LET stored == ReadEnrollment.moduleProgress
            active == {i \in 1..Len(stored) : ~stored[i].archived}
        IN  /\ Len(ret.moduleProgress) = Cardinality(active)
            /\ \A i \in active :
                  \E j \in 1..Len(ret.moduleProgress) :
                      /\ KeyOf(ret.moduleProgress[j]) = KeyOf(stored[i])
                      /\ ret.moduleProgress[j].completed = stored[i].completed
                      /\ ret.moduleProgress[j].completedAt
                            = stored[i].completedAt
                      /\ ret.moduleProgress[j].lastVisited
                            = stored[i].lastVisited
            /\ \A j \in 1..Len(ret.moduleProgress) :
                  KeyOf(ret.moduleProgress[j]) \notin ArchivedKeys(ReadEnrollment)

\* a read has returned the view of an enrollment with archived and with
\* active entries
C28_Witness ==
    /\ ReadReturned
    /\ ArchivedKeys(ReadEnrollment) # {}
    /\ ret.moduleProgress # <<>>

\* C29: the recentActivity list a read returns holds only entries of the
\* enrollment that are not archived and have a lastVisited, latest first; it
\* has at most 5 elements, and no such entry left out was visited later than
\* one in the list.
C29_RecentActivityTopFive ==
    ReadReturned =>
        LET recent == ret.recentActivity
            eligible == {p \in Range(ReadEnrollment.moduleProgress) :
                            ~p.archived /\ p.lastVisited # Null}
        IN  /\ Range(recent) \subseteq eligible
            /\ \A i, j \in 1..Len(recent) :
                  i < j => recent[i].lastVisited >= recent[j].lastVisited
            /\ Len(recent) <= 5
            /\ \A p \in eligible \ Range(recent) :
                  \A q \in Range(recent) : p.lastVisited <= q.lastVisited

\* a read has returned five of six visited entries, not all visited at the
\* same time and stored earliest first
C29_Witness ==
    /\ ReadReturned
    /\ Len(ret.recentActivity) = 5
    /\ ret.recentActivity[1].lastVisited > ret.recentActivity[5].lastVisited
    /\ LET stored == ReadEnrollment.moduleProgress
       IN  /\ \A i \in 1..Len(stored) :
                 ~stored[i].archived /\ stored[i].lastVisited # Null
           /\ stored[1].lastVisited < stored[Len(stored)].lastVisited

----------------------------------------------------------------------------
(* Calls on absent records *)

\* C30: an enroll call for an absent course or an absent user, a completion
\* call for an absent user and a repair call for an absent course each throw
\* the not-found error of that record and change no user and no course.
C30_NotFoundChangesNothing ==
    [][\A c \in CourseIds :
          /\ \A u \in UserIds :
                /\ (~courses[c].exists /\ Enroll(u, c))
                   => /\ ret'.error = "Course not found"
                      /\ users' = users /\ courses' = courses
                /\ (courses[c].exists /\ ~users[u].exists /\ Enroll(u, c))
                   => /\ ret'.error = "User not found"
                      /\ users' = users /\ courses' = courses
                /\ (~users[u].exists /\ Complete(u, c))
                   => /\ ret'.error = "User not found"
                      /\ users' = users /\ courses' = courses
          /\ (~courses[c].exists /\ RepairCourse(c))
             => /\ ret'.error = "Course not found"
                /\ users' = users /\ courses' = courses]_vars

\* an enroll call for a deleted course was just refused to a user who exists
C30_Witness ==
    /\ ret.op = "enroll" /\ ret.error = "Course not found"
    /\ users[ret.user].exists
    /\ ~courses[ret.course].exists

----------------------------------------------------------------------------
\* C31: indexCourseModules never replaces an id that a module or a subModule
\* already carries: in the hierarchy as indexing leaves it, and in the flat
\* list it returns, every node that had an id before the call still has it.
C31_IndexingKeepsIds ==
    \A c \in CourseIds :
        LET modules == courses[c].modules
            im == IndexedModules(c, modules)
            flat == indexCourseModules(c, modules).indexed
        IN  /\ \A i \in 1..Len(modules) :
                  /\ modules[i].id # NoId => im[i].id = modules[i].id
                  /\ \A j \in 1..Len(modules[i].subModules) :
                        LET sm == modules[i].subModules[j]
                        IN  sm.id # NoId =>
                              /\ im[i].subModules[j].id = sm.id
                              /\ \E k \in 1..Len(flat) :
                                    /\ flat[k].subModuleId = sm.id
                                    /\ flat[k].moduleOrder = i
                                    /\ flat[k].subModuleOrder = j

\* indexing has been written back and a subModule sits at a position whose
\* generated id is not the id it carries
C31_Witness ==
    /\ ret.op = "repair"
    /\ \E c \in CourseIds : \E i \in 1..Len(courses[c].modules) :
          \E j \in 1..Len(courses[c].modules[i].subModules) :
             LET sm == courses[c].modules[i].subModules[j]
             IN  /\ sm.id # NoId
                 /\ sm.id # generateSubModuleId(c, i, j)

----------------------------------------------------------------------------
\* C32: indexCourseModules keeps an order that a module or a subModule
\* already carries: a node whose order was set before the call (0 stands
\* for an order never set) has the same order afterwards.
C32_IndexingKeepsOrders ==
    \A c \in CourseIds :
        LET modules == courses[c].modules
            im == IndexedModules(c, modules)
        IN  \A i \in 1..Len(modules) :
               /\ modules[i].order # 0 => im[i].order = modules[i].order
               /\ \A j \in 1..Len(modules[i].subModules) :
                     LET sm == modules[i].subModules[j]
                     IN  sm.order # 0 => im[i].subModules[j].order = sm.order

----------------------------------------------------------------------------
\* C33: a subModule that carries no id written by an author and is moved to
\* another position of its module gets, from the indexing pass after the
\* move, an id different from the one indexing gave it before the move,
\* also when an earlier pass had written a generated id back.
C33_MovedLeafGetsNewId ==
    [][\A c \in CourseIds : \A i \in 1..MaxModules : \A j \in 1..MaxSubModules :
          SwapSubModules(c, i, j) =>
             LET stored == courses[c].modules[i].subModules
                 before == IndexedModules(c, courses[c].modules)[i].subModules
                 after  == IndexedModules(c, courses'[c].modules)[i].subModules
             IN  /\ stored[j].id \notin PinnedSubModuleIds =>
                        after[j + 1].id # before[j].id
                 /\ stored[j + 1].id \notin PinnedSubModuleIds =>
                        after[j].id # before[j + 1].id]_vars

----------------------------------------------------------------------------
\* C34: a reconciliation pass partitions the entries by the whole key: an
\* entry whose subModuleId is an id of the target indexing but whose
\* (moduleId, subModuleId) key is not a key of it is stale, so after the
\* pass its key has no entry that is not archived.
C34_MismatchedModuleIsStale ==
    [][\A c \in CourseIds :
          RepairCourse(c) =>
              \A u \in EnrolledUsers(c) :
                  LET k == EnrollmentIndex(users[u].enrollments, c)
                      before == users[u].enrollments[k].moduleProgress
                      after == users'[u].enrollments[k].moduleProgress
                  IN  \A p \in Range(before) :
                          (/\ KeyOf(p) \notin IndexKeys(c)
                           /\ \E key \in IndexKeys(c) : key[2] = p.subModuleId)
                          => \A q \in Range(after) :
                                KeyOf(q) = KeyOf(p) => q.archived]_vars

----------------------------------------------------------------------------
\* C35: completedAt of an entry is set by the completion call that turns
\* completed from false to true, and no later completion call and no
\* reconciliation pass that keeps or archives the entry changes it; every
\* completion call for an enrolled pair sets lastVisited of the entry and
\* lastAccessed of the enrollment to the time of the call.
C35_CompletedAtSetOnce ==
    [][\A u \in UserIds, c \in CourseIds :
          LET k == EnrollmentIndex(users[u].enrollments, c)
              before == users[u].enrollments[k]
              after == users'[u].enrollments[k]
          IN  (k # 0 /\ EnrollmentIndex(users'[u].enrollments, c) = k) =>
                /\ \A p \in Range(before.moduleProgress) :
                      p.completed =>
                         \E q \in Range(after.moduleProgress) :
                            /\ KeyOf(q) = KeyOf(p)
                            /\ q.completed /\ q.completedAt = p.completedAt
                /\ \A key \in IndexKeys(c) \cup EntryKeys(u, c) :
                      UpdateSubModuleProgress(u, c, key[1], key[2]) =>
                         /\ after.lastAccessed = now
                         /\ \E q \in Range(after.moduleProgress) :
                               /\ KeyOf(q) = key
                               /\ q.lastVisited = now
                               /\ q.completed
                               /\ key \notin CompletedKeys(before)
                                     => q.completedAt = now]_vars

\* an entry completed at one time was visited by a later completion call and
\* archived by a later reconciliation pass
C35_Witness ==
    \E e \in Enrollments :
        \E p \in Range(e.moduleProgress) :
            /\ p.completed /\ p.archived
            /\ p.completedAt < p.lastVisited
            /\ p.completedAt < p.archivedAt

----------------------------------------------------------------------------
\* C36: when a repair of the course has run on the hierarchy as it now
\* stands and the learner then completes the leaves of the target indexing,
\* the enrollment ends with completedModules = totalModules and progress
\* 100.  Stated for the last of these completion calls: a call that
\* directly follows the repair, for a leaf of a course whose leaf ids are
\* all different, when every other leaf of the target already has a
\* completed entry that is not archived.  The leaf may be one the learner
\* completed before it was removed and added again under the same id.
C36_AllLeavesCompletedIsHundred ==
    [][\A u \in UserIds, c \in CourseIds : \A key \in IndexKeys(c) :
          LET k == EnrollmentIndex(users[u].enrollments, c)
              before == users[u].enrollments[k]
              after == users'[u].enrollments[k]
          IN  (/\ k # 0
               /\ ret.op = "repair" /\ ret.error = "" /\ ret.course = c
               /\ Cardinality(IndexKeys(c)) = LeafCount(c)
               /\ \A other \in IndexKeys(c) \ {key} :
                     \E p \in Range(before.moduleProgress) :
                        KeyOf(p) = other /\ p.completed /\ ~p.archived
               /\ UpdateSubModuleProgress(u, c, key[1], key[2]))
              => /\ after.completedModules = after.totalModules
                 /\ after.progress = 100]_vars

----------------------------------------------------------------------------
\* C37: when the deletion of a course has finished, no user holds an
\* enrollment for the course, also when an enroll call ran between the
\* purge of the enrollments and the delete of the course document.
C37_FinishedDeletionLeavesNoEnrollment ==
    ret.op = "deleteCourse" =>
        \A u \in UserIds : ~HoldsEnrollment(u, ret.course)

----------------------------------------------------------------------------
\* the enrollments of the user for courses other than c, in their order
OtherEnrollments(enrollments, c) ==
    SelectSeq(enrollments, LAMBDA e : e.course # c)

\* C38: a reconciliation pass for a course and a completion call for a user
\* and a course leave alone every enrollment for another course, every
\* record of a user not enrolled in the course (reconciliation) or of another
\* user (completion), and, in a reconciled enrollment, every entry that is
\* not archived and whose key is a key of the target indexing.
C38_OnlyTheEnrollmentChanges ==
    [][\A c \in CatalogIds :
          /\ RepairCourse(c) =>
                /\ \A u \in UserIds \ EnrolledUsers(c) : users'[u] = users[u]
                /\ \A u \in UserIds :
                      OtherEnrollments(users'[u].enrollments, c)
                         = OtherEnrollments(users[u].enrollments, c)
                /\ \A u \in EnrolledUsers(c) :
                      LET k == EnrollmentIndex(users[u].enrollments, c)
                          before == users[u].enrollments[k].moduleProgress
                          after == users'[u].enrollments[k].moduleProgress
                      IN  \A p \in Range(before) :
                             (~p.archived /\ KeyOf(p) \in IndexKeys(c))
                             => \E q \in Range(after) : q = p
          /\ \A u \in UserIds : \A key \in IndexKeys(c) \cup EntryKeys(u, c) :
                UpdateSubModuleProgress(u, c, key[1], key[2]) =>
                   /\ \A other \in UserIds \ {u} : users'[other] = users[other]
                   /\ OtherEnrollments(users'[u].enrollments, c)
                         = OtherEnrollments(users[u].enrollments, c)
                   /\ Len(users'[u].enrollments) = Len(users[u].enrollments)]_vars

\* a repair of the first course archived an entry of the learner of both
\* courses while that learner and the other one held completed entries in the
\* second course
C38_Witness ==
    /\ ret.op = "repair" /\ ret.course = "c1" /\ ret.usersUpdated = 1
    /\ \E e \in EnrollmentsOf("u1") :
          e.course = "c1" /\ \E p \in Range(e.moduleProgress) : p.archived
    /\ \E e \in EnrollmentsOf("u1") :
          e.course = "c2" /\ \E p \in Range(e.moduleProgress) : p.completed
    /\ \E e \in EnrollmentsOf("u2") :
          e.course = "c2" /\ \E p \in Range(e.moduleProgress) : p.completed

----------------------------------------------------------------------------
\* enrollments held by the users, counted with their repetitions
RECURSIVE EnrollmentCount(_, _)
EnrollmentCount(us, found) ==
    IF found = {} THEN 0
    ELSE LET u == CHOOSE x \in found : TRUE
         IN  Len(us[u].enrollments) + EnrollmentCount(us, found \ {u})

\* C39: cleanupInvalidEnrollments returns the number of enrollments it
\* removed over all users; after it every enrollment left references a
\* course that exists, and every enrollment that referenced an existing
\* course is still there.
C39_CleanupCountsAndKeepsValid ==
    [][CleanupInvalidEnrollments =>
          /\ ret'.totalCleaned = EnrollmentCount(users, UserIds)
                                    - EnrollmentCount(users', UserIds)
          /\ \A u \in UserIds :
                /\ \A e \in Range(users'[u].enrollments) :
                      courses'[e.course].exists
                /\ users'[u].enrollments
                      = SelectSeq(users[u].enrollments,
                                  LAMBDA e : courses[e.course].exists)]_vars

====
